---------------------------- MODULE Spec2Model ----------------------------
(***************************************************************************)
(* Model of enigma.py: the plugboard builder, the validator, the cipher    *)
(* loop of enigma() and the driver that encrypts a message and decrypts    *)
(* the result with the same configuration.                                 *)
(*                                                                         *)
(* A character is modelled as a one-character string ("A", "h", "1", " "); *)
(* a character outside ASCII is written by its code point ("U+00DF").  A   *)
(* Python str is a sequence of characters.  An exception is a string that  *)
(* starts with "!" where a value was expected, or the message prefix of    *)
(* the exception in the variable error.                                    *)
(***************************************************************************)
EXTENDS Integers, Sequences, FiniteSets, TLC

\* ------------------------------------------------------------------ data
abc == <<"A","B","C","D","E","F","G","H","I","J","K","L","M",
         "N","O","P","Q","R","S","T","U","V","W","X","Y","Z">>

rotor1 == <<"E","G","Z","W","V","O","N","A","H","D","C","L","F","Q","M","S","I","P","J","B","Y","U","K","X","T","R">>
rotor2 == <<"F","O","B","H","M","D","K","E","X","Q","N","R","A","U","L","P","G","S","J","V","T","Y","I","C","Z","W">>
rotor3 == <<"Z","J","X","E","S","I","U","Q","L","H","A","V","R","M","D","O","Y","G","T","N","F","W","P","B","K","C">>

\* a reflector that sends "A" and "N" back as they came
reflectorFixed ==
    ("A" :> "A") @@ ("N" :> "N") @@
    ("B" :> "O") @@ ("O" :> "B") @@
    ("C" :> "P") @@ ("P" :> "C") @@
    ("D" :> "Q") @@ ("Q" :> "D") @@
    ("E" :> "R") @@ ("R" :> "E") @@
    ("F" :> "S") @@ ("S" :> "F") @@
    ("G" :> "T") @@ ("T" :> "G") @@
    ("H" :> "U") @@ ("U" :> "H") @@
    ("I" :> "V") @@ ("V" :> "I") @@
    ("J" :> "W") @@ ("W" :> "J") @@
    ("K" :> "X") @@ ("X" :> "K") @@
    ("L" :> "Y") @@ ("Y" :> "L") @@
    ("M" :> "Z") @@ ("Z" :> "M")

\* a reflector wired wrongly at one end: "Z" goes to "L", not back to "M"
reflectorOneWay ==
    ("A" :> "N") @@ ("N" :> "A") @@
    ("B" :> "O") @@ ("O" :> "B") @@
    ("C" :> "P") @@ ("P" :> "C") @@
    ("D" :> "Q") @@ ("Q" :> "D") @@
    ("E" :> "R") @@ ("R" :> "E") @@
    ("F" :> "S") @@ ("S" :> "F") @@
    ("G" :> "T") @@ ("T" :> "G") @@
    ("H" :> "U") @@ ("U" :> "H") @@
    ("I" :> "V") @@ ("V" :> "I") @@
    ("J" :> "W") @@ ("W" :> "J") @@
    ("K" :> "X") @@ ("X" :> "K") @@
    ("L" :> "Y") @@ ("Y" :> "L") @@
    ("M" :> "Z") @@ ("Z" :> "L")

reflector ==
    ("A" :> "N") @@ ("N" :> "A") @@
    ("B" :> "O") @@ ("O" :> "B") @@
    ("C" :> "P") @@ ("P" :> "C") @@
    ("D" :> "Q") @@ ("Q" :> "D") @@
    ("E" :> "R") @@ ("R" :> "E") @@
    ("F" :> "S") @@ ("S" :> "F") @@
    ("G" :> "T") @@ ("T" :> "G") @@
    ("H" :> "U") @@ ("U" :> "H") @@
    ("I" :> "V") @@ ("V" :> "I") @@
    ("J" :> "W") @@ ("W" :> "J") @@
    ("K" :> "X") @@ ("X" :> "K") @@
    ("L" :> "Y") @@ ("Y" :> "L") @@
    ("M" :> "Z") @@ ("Z" :> "M")

rotor4 == <<"R","M","D","J","X","F","U","W","G","I","S","L","H","V","T","C","Q","N","K","Y","P","B","E","Z","O","A">>
rotor5 == <<"S","G","L","C","P","Q","W","Z","H","K","X","A","R","E","O","N","T","F","B","V","I","Y","J","U","D","M">>
rotor6 == <<"H","V","S","I","C","L","T","Y","K","Q","U","B","X","D","W","A","J","Z","O","M","F","G","P","R","E","N">>
rotor7 == <<"R","Z","W","Q","H","F","M","V","D","B","K","I","C","J","L","N","T","U","X","A","G","Y","P","S","O","E">>
rotor8 == <<"L","F","K","I","J","O","D","B","E","G","A","M","Q","P","X","V","U","H","Y","S","T","C","Z","R","W","N">>
\* a wiring of 26 symbols with "K" at both ends and no "S"
rotor9Repeat == <<"K","O","A","E","G","V","D","H","X","P","Q","Z","M","L","F","T","Y","W","J","N","B","R","C","I","U","K">>
rotor9 == <<"K","O","A","E","G","V","D","H","X","P","Q","Z","M","L","F","T","Y","W","J","N","B","R","C","I","U","S">>
rotor_list == <<rotor1, rotor2, rotor3, rotor4, rotor5, rotor6, rotor7, rotor8, rotor9>>

\* ------------------------------------------------- Python str primitives
Range(s) == {s[n] : n \in 1..Len(s)}

\* c in s, for a one-character c
In(c, s) == \E n \in 1..Len(s) : s[n] = c

\* s.index(c): the 0-based position of the first c; NotFound stands for the
\* ValueError that s.index raises when c is absent
NotFound == 0 - 1
StrIndex(s, c) ==
    IF In(c, s) THEN (CHOOSE n \in 1..Len(s) : s[n] = c /\ \A m \in 1..(n-1) : s[m] # c) - 1
    ELSE NotFound

\* s[n] with Python's negative indices, or IndexError
Subscript(s, n) ==
    IF n >= 0 /\ n < Len(s) THEN s[n + 1]
    ELSE IF n < 0 /\ n >= 0 - Len(s) THEN s[Len(s) + n + 1]
    ELSE "!IndexError"

IsExc(v) == v \in {"!ValueError", "!IndexError", "!KeyError"}

lowercase == <<"a","b","c","d","e","f","g","h","i","j","k","l","m",
               "n","o","p","q","r","s","t","u","v","w","x","y","z">>

\* str.upper() of one character: a str of one or more characters
UpperChar(c) ==
    IF In(c, lowercase) THEN <<abc[StrIndex(lowercase, c) + 1]>>
    ELSE IF c = "U+00DF" THEN <<"S", "S">>      \* sharp s
    ELSE IF c = "U+00E9" THEN <<"U+00C9">>      \* e acute
    ELSE <<c>>

\* str.upper(): the characters' upper-case forms, joined in order
RECURSIVE Upper(_)
Upper(s) ==
    IF s = <<>> THEN <<>>
    ELSE IF Len(s) = 1 THEN UpperChar(s[1])
    ELSE Upper(SubSeq(s, 1, Len(s) \div 2)) \o
         Upper(SubSeq(s, (Len(s) \div 2) + 1, Len(s)))

\* ------------------------------------------------------------ exceptions
\* An exception is named by the start of its message.
NoError         == ""
UniqueRotors    == "Please use 3 unique rotors"
FirstPosition   == "First rotor position is not within range of 1..26"
SecondPosition  == "Second rotor position is not within range of 1..26"
ThirdPosition   == "Third rotor position is not within range of 1..26"
OddNumber       == "Odd number of symbols"
NotInList       == "not in list of symbols"
DuplicateSymbol == "Duplicate symbol"

\* -------------------------------------------------------------- plugboard
EmptyDict == [x \in {} |-> ""]

\* the checks made in two passes: every symbol against the alphabet first,
\* repeats after that
CheckSymbolsTwoPass(pbstring, n, tmppbl) ==
    IF \E m \in n..Len(pbstring) : ~In(pbstring[m], abc) THEN NotInList
    ELSE IF \E m \in n..Len(pbstring) :
                pbstring[m] \in tmppbl \/ \E l \in n..(m - 1) : pbstring[l] = pbstring[m]
         THEN DuplicateSymbol
    ELSE NoError

\* the loop "for i in pbstring" over the characters from position n on, with
\* tmppbl the characters already seen: the exception it raises, or NoError
RECURSIVE CheckSymbols(_, _, _)
CheckSymbols(pbstring, n, tmppbl) ==
    IF n > Len(pbstring) THEN NoError
    ELSE IF ~In(pbstring[n], abc) THEN NotInList
    ELSE IF pbstring[n] \in tmppbl THEN DuplicateSymbol
    ELSE CheckSymbols(pbstring, n + 1, tmppbl \cup {pbstring[n]})

\* the dict with the first symbol of a pair as key only
MakeDictOneWay(pbstring, j, pb) ==
    [c \in {pbstring[n] : n \in {m \in (j + 1)..Len(pbstring) : m % 2 = 1}} |->
        pbstring[(CHOOSE n \in (j + 1)..Len(pbstring) : pbstring[n] = c) + 1]]

\* the dict made with "range(0, len(pbstring) - 1)": every symbol paired
\* with its right neighbour as well
RECURSIVE MakeDictEveryIndex(_, _, _)
MakeDictEveryIndex(pbstring, j, pb) ==
    IF j >= Len(pbstring) - 1 THEN pb
    ELSE MakeDictEveryIndex(pbstring, j + 1,
                  (pbstring[j + 2] :> pbstring[j + 1]) @@
                  ((pbstring[j + 1] :> pbstring[j + 2]) @@ pb))

\* the loop "for j in range(0, len(pbstring) - 1, 2)", j the 0-based index
RECURSIVE MakeDict(_, _, _)
MakeDict(pbstring, j, pb) ==
    IF j >= Len(pbstring) - 1 THEN pb
    ELSE MakeDict(pbstring, j + 2,
                  (pbstring[j + 2] :> pbstring[j + 1]) @@
                  ((pbstring[j + 1] :> pbstring[j + 2]) @@ pb))

\* _plugboard(pbstring); pbstring is always a str here.  The value of
\* pbstring.replace(" ", "") is dropped, so pbstring keeps its spaces.
_plugboard(pbstring) ==
    IF Len(pbstring) % 2 # 0 THEN [exc |-> OddNumber, pb |-> EmptyDict]
    ELSE IF pbstring = <<>> THEN [exc |-> NoError, pb |-> EmptyDict]
    ELSE IF CheckSymbols(pbstring, 1, {}) # NoError
         THEN [exc |-> CheckSymbols(pbstring, 1, {}), pb |-> EmptyDict]
    ELSE [exc |-> NoError, pb |-> MakeDict(pbstring, 0, EmptyDict)]

\* -------------------------------------------------------------- validator
\* the range test with 0 let in
InRangeFromZero(rotorpos) == 0 <= rotorpos /\ rotorpos <= Len(abc)

\* the range test with len(abc) left out
InRangeExclusive(rotorpos) == 0 < rotorpos /\ rotorpos < Len(abc)

\* 0 < rotorpos <= len(abc)
InRange(rotorpos) == 0 < rotorpos /\ rotorpos <= Len(abc)

\* len(rotsel) for len(set(rotsel))
UniqueCountLen(rotsel) == Len(rotsel)

\* len(set(rotsel))
UniqueCount(rotsel) == Cardinality(Range(rotsel))

\* _validator(rotpos, rotsel, pb): the exception raised (NoError if none)
\* and the returned triple
_validator(rotpos, rotsel, pb) ==
    LET unique_rotsel == UniqueCount(rotsel)
        failed(e) == [exc |-> e, rotpos |-> rotpos, rotsel |-> rotsel,
                      pbdict |-> EmptyDict]
    IN  IF unique_rotsel < 3 THEN failed(UniqueRotors)
        ELSE IF ~InRange(rotpos[1]) THEN failed(FirstPosition)
        ELSE IF ~InRange(rotpos[2]) THEN failed(SecondPosition)
        ELSE IF ~InRange(rotpos[3]) THEN failed(ThirdPosition)
        ELSE IF _plugboard(pb).exc # NoError THEN failed(_plugboard(pb).exc)
        ELSE [exc |-> NoError, rotpos |-> rotpos, rotsel |-> rotsel,
              pbdict |-> _plugboard(pb).pb]

\* ----------------------------------------------------- per-symbol transform
\* "if symbol in plugboard: symbol = plugboard[symbol]"
Plug(plugboard, symbol) ==
    IF IsExc(symbol) THEN symbol
    ELSE IF symbol \in DOMAIN plugboard THEN plugboard[symbol] ELSE symbol

\* the forward pass through a rotor that is never turned: the offset left out
ForwardPassUnturned(rotor, rotorpos, symbol) ==
    IF IsExc(symbol) THEN symbol
    ELSE IF StrIndex(abc, symbol) = NotFound THEN "!ValueError"
    ELSE Subscript(rotor, StrIndex(abc, symbol) % Len(abc))

\* "index = abc.index(symbol) + rotorpos; symbol = rotor[index % len(abc)]"
ForwardPass(rotor, rotorpos, symbol) ==
    IF IsExc(symbol) THEN symbol
    ELSE IF StrIndex(abc, symbol) = NotFound THEN "!ValueError"
    ELSE Subscript(rotor, (StrIndex(abc, symbol) + rotorpos) % Len(abc))

\* "symbol = reflector[symbol]"
Reflect(symbol) ==
    IF IsExc(symbol) THEN symbol
    ELSE IF symbol \in DOMAIN reflector THEN reflector[symbol] ELSE "!KeyError"

\* the reverse pass made like the forward pass: the offset added
ReversePassAdds(rotor, rotorpos, symbol) ==
    IF IsExc(symbol) THEN symbol
    ELSE IF StrIndex(rotor, symbol) = NotFound THEN "!ValueError"
    ELSE Subscript(abc, (StrIndex(rotor, symbol) + rotorpos) % Len(abc))

\* "symbol = abc[rotor.index(symbol) - rotorpos]"
ReversePass(rotor, rotorpos, symbol) ==
    IF IsExc(symbol) THEN symbol
    ELSE IF StrIndex(rotor, symbol) = NotFound THEN "!ValueError"
    ELSE Subscript(abc, StrIndex(rotor, symbol) - rotorpos)

\* the body of "if symbol in abc" up to the second plugboard: the output
\* symbol, or the exception raised on the way
Encipher(symbol, plugboard, rotsel, p1, p2, p3) ==
    LET s1 == Plug(plugboard, symbol)
        s2 == ForwardPass(rotsel[1], p1, s1)
        s3 == ForwardPass(rotsel[2], p2, s2)
        s4 == ForwardPass(rotsel[3], p3, s3)
        s5 == Reflect(s4)
        s6 == ReversePass(rotsel[3], p3, s5)
        s7 == ReversePass(rotsel[2], p2, s6)
        s8 == ReversePass(rotsel[1], p1, s7)
    IN  Plug(plugboard, s8)

\* the step without the carries: every offset wraps on its own
AdvanceNoCarry(p1, p2, p3) ==
    <<IF p1 + 1 >= Len(abc) THEN 0 ELSE p1 + 1, p2, p3>>

\* the step with ">" for ">=": an offset wraps one letter late
AdvanceLate(p1, p2, p3) ==
    LET a1 == p1 + 1
        b1 == IF a1 > Len(abc) THEN 0 ELSE a1
        a2 == IF a1 > Len(abc) THEN p2 + 1 ELSE p2
        b2 == IF a2 > Len(abc) THEN 0 ELSE a2
        a3 == IF a2 > Len(abc) THEN p3 + 1 ELSE p3
        b3 == IF a3 > Len(abc) THEN 0 ELSE a3
    IN  <<b1, b2, b3>>

\* the step of a machine whose third rotor never turns
AdvanceTwoRotors(p1, p2, p3) ==
    LET a1 == p1 + 1
        b1 == IF a1 >= Len(abc) THEN 0 ELSE a1
        a2 == IF a1 >= Len(abc) THEN p2 + 1 ELSE p2
        b2 == IF a2 >= Len(abc) THEN 0 ELSE a2
    IN  <<b1, b2, p3>>

\* the step without its last "if": offset3 is never reset
AdvanceNoReset3(p1, p2, p3) ==
    LET a1 == p1 + 1
        b1 == IF a1 >= Len(abc) THEN 0 ELSE a1
        a2 == IF a1 >= Len(abc) THEN p2 + 1 ELSE p2
        b2 == IF a2 >= Len(abc) THEN 0 ELSE a2
        a3 == IF a2 >= Len(abc) THEN p3 + 1 ELSE p3
    IN  <<b1, b2, a3>>

\* "moves/resets rotor positions": the offsets after the three ifs
Advance(p1, p2, p3) ==
    LET a1 == p1 + 1
        b1 == IF a1 >= Len(abc) THEN 0 ELSE a1
        a2 == IF a1 >= Len(abc) THEN p2 + 1 ELSE p2
        b2 == IF a2 >= Len(abc) THEN 0 ELSE a2
        a3 == IF a2 >= Len(abc) THEN p3 + 1 ELSE p3
        b3 == IF a3 >= Len(abc) THEN 0 ELSE a3
    IN  <<b1, b2, b3>>

\* ------------------------------------------------------------------ state
VARIABLES
    message,        \* driver: the text read from the user
    rotor_pos,      \* driver: the three dial positions
    rotor_sel,      \* driver: the three wirings, each by its name in wiring
    pb,             \* driver: the plugboard setting
    en,             \* driver: the value of the first enigma call
    stage,          \* driver: "encrypt" (first call) or "decrypt" (second)
    pc,             \* enigma: "entry", "loop", "returned" or "raised"
    text,           \* enigma: text after text.upper()
    plugboard,      \* enigma: the dict made by the validator
    rotorpos1, rotorpos2, rotorpos3,    \* enigma: the 0-based offsets
    result,         \* enigma: the symbols appended so far
    consumed,       \* enigma: how many symbols of text the for loop has taken
    error           \* the exception that ended the call, or NoError

vars == <<message, rotor_pos, rotor_sel, pb, en, stage, pc, text, plugboard,
          rotorpos1, rotorpos2, rotorpos3, result, consumed, error>>

driver == <<message, rotor_pos, rotor_sel, pb>>

\* ----------------------------------------------------------------- inputs
MaxLen == 2

\* letters in both cases, a digit, and two characters outside ASCII
TextChars == {"A", "z", "1", "U+00DF", "U+00E9"}

Messages == UNION {[1..n -> TextChars] : n \in 0..MaxLen}

Positions == {0, 1, 26, 27}

\* a 26-symbol wiring that is no permutation ("R" twice, no "E"), and a short one
miswired == <<"R","G","Z","W","V","O","N","A","H","D","C","L","F","Q","M","S","I","P","J","B","Y","U","K","X","T","R">>
shortwired == <<"A","B","C">>

\* the wirings a caller can pass, by name: the catalog and the two above
wiring ==
    [rotor1 |-> rotor1, rotor2 |-> rotor2, rotor3 |-> rotor3,
     rotor4 |-> rotor4, rotor5 |-> rotor5, rotor6 |-> rotor6,
     rotor7 |-> rotor7, rotor8 |-> rotor8, rotor9 |-> rotor9,
     miswired |-> miswired, shortwired |-> shortwired]

\* the tuple of wirings that a tuple of names stands for
Wired(sel) == [n \in 1..Len(sel) |-> wiring[sel[n]]]

Selections ==
    { <<"rotor1", "rotor2", "rotor3">>, <<"rotor4", "rotor5", "rotor6">>,
      <<"rotor9", "rotor8", "rotor7">>,
      <<"rotor1", "rotor1", "rotor2">>, <<"rotor3", "rotor2", "rotor3">>,
      <<"miswired", "rotor2", "rotor3">>, <<"rotor1", "rotor2", "shortwired">> }

PlugSettings ==
    { <<>>,
      <<"P","O","L","A","N","D">>,
      <<"p","i","c","t","u","r","e","s">>,
      <<"A","B"," ","C","D">>,
      <<"A","B","C">>,
      <<"A","B","C"," ">>,
      <<"A","1">>,
      <<"A","A">>,
      <<"A","A","1","B">> }

\* the locals of a call that has not bound them yet
Unbound ==
    /\ text = <<>>
    /\ plugboard = EmptyDict
    /\ rotorpos1 = 0 /\ rotorpos2 = 0 /\ rotorpos3 = 0
    /\ result = <<>>
    /\ consumed = 0

Init ==
    /\ message \in Messages
    /\ rotor_pos \in Positions \X Positions \X Positions
    /\ rotor_sel \in Selections
    /\ pb \in PlugSettings
    /\ en = <<>>
    /\ stage = "encrypt"
    /\ pc = "entry"
    /\ Unbound
    /\ error = NoError

\* ---------------------------------------------------------------- actions
\* enigma, from its entry to the for loop: text.upper(), the validator, the
\* offsets
Call ==
    /\ pc = "entry"
    /\ text' = Upper(IF stage = "encrypt" THEN message ELSE en)
    /\ LET v == _validator(rotor_pos, Wired(rotor_sel), Upper(pb))
       IN  IF v.exc # NoError
           THEN /\ pc' = "raised"
                /\ error' = v.exc
                /\ UNCHANGED <<plugboard, rotorpos1, rotorpos2, rotorpos3>>
           ELSE /\ pc' = "loop"
                /\ plugboard' = v.pbdict
                /\ rotorpos1' = v.rotpos[1] - 1
                /\ rotorpos2' = v.rotpos[2] - 1
                /\ rotorpos3' = v.rotpos[3] - 1
                /\ UNCHANGED error
    /\ UNCHANGED <<driver, en, stage, result, consumed>>

\* an iteration that moves the rotors before it transforms the letter
SymbolStepsFirst ==
    /\ pc = "loop"
    /\ consumed < Len(text)
    /\ LET symbol == text[consumed + 1]
           next == Advance(rotorpos1, rotorpos2, rotorpos3)
           out == Encipher(symbol, plugboard, Wired(rotor_sel),
                           next[1], next[2], next[3])
       IN  IF In(symbol, abc)
           THEN IF IsExc(out)
                THEN /\ pc' = "raised"
                     /\ error' = out
                     /\ UNCHANGED <<rotorpos1, rotorpos2, rotorpos3, result,
                                    consumed>>
                ELSE /\ rotorpos1' = next[1]
                     /\ rotorpos2' = next[2]
                     /\ rotorpos3' = next[3]
                     /\ result' = Append(result, out)
                     /\ consumed' = consumed + 1
                     /\ UNCHANGED <<pc, error>>
           ELSE /\ result' = Append(result, symbol)
                /\ consumed' = consumed + 1
                /\ UNCHANGED <<pc, error, rotorpos1, rotorpos2, rotorpos3>>
    /\ UNCHANGED <<driver, en, stage, text, plugboard>>

\* one iteration of "for symbol in text"
Symbol ==
    /\ pc = "loop"
    /\ consumed < Len(text)
    /\ LET symbol == text[consumed + 1]
           out == Encipher(symbol, plugboard, Wired(rotor_sel),
                           rotorpos1, rotorpos2, rotorpos3)
           next == Advance(rotorpos1, rotorpos2, rotorpos3)
       IN  IF In(symbol, abc)
           THEN IF IsExc(out)
                THEN /\ pc' = "raised"
                     /\ error' = out
                     /\ UNCHANGED <<rotorpos1, rotorpos2, rotorpos3, result,
                                    consumed>>
                ELSE /\ rotorpos1' = next[1]
                     /\ rotorpos2' = next[2]
                     /\ rotorpos3' = next[3]
                     /\ result' = Append(result, out)
                     /\ consumed' = consumed + 1
                     /\ UNCHANGED <<pc, error>>
           ELSE /\ result' = Append(result, symbol)
                /\ consumed' = consumed + 1
                /\ UNCHANGED <<pc, error, rotorpos1, rotorpos2, rotorpos3>>
    /\ UNCHANGED <<driver, en, stage, text, plugboard>>

\* "return "".join(result)"
Return ==
    /\ pc = "loop"
    /\ consumed = Len(text)
    /\ pc' = "returned"
    /\ UNCHANGED <<driver, en, stage, text, plugboard, rotorpos1, rotorpos2,
                   rotorpos3, result, consumed, error>>

\* the driver keeps the first value in en and calls enigma on it with the
\* same configuration
Decrypt ==
    /\ stage = "encrypt"
    /\ pc = "returned"
    /\ en' = result
    /\ stage' = "decrypt"
    /\ pc' = "entry"
    /\ text' = <<>>
    /\ plugboard' = EmptyDict
    /\ rotorpos1' = 0 /\ rotorpos2' = 0 /\ rotorpos3' = 0
    /\ result' = <<>>
    /\ consumed' = 0
    /\ UNCHANGED <<driver, error>>

\* a long text for the odometer: unit repeated up to LongLen characters
LongLen == 1020

LongUnits == { <<"A">>, <<"e", "1", "Z">> }

LongText(unit) == [n \in 1..LongLen |-> unit[((n - 1) % Len(unit)) + 1]]

InitLong ==
    /\ message \in {LongText(unit) : unit \in LongUnits}
    /\ rotor_pos \in {1, 2} \X {1, 26} \X {1, 26}
    /\ rotor_sel = <<"rotor1", "rotor2", "rotor3">>
    /\ pb = <<>>
    /\ en = <<>>
    /\ stage = "encrypt"
    /\ pc = "entry"
    /\ Unbound
    /\ error = NoError

Next == Call \/ Symbol \/ Return \/ Decrypt

Spec == Init /\ [][Next]_vars

SpecLong == InitLong /\ [][Next]_vars

\* ------------------------------------------------------------- properties
\* the three selected wirings are rotors of the catalog
CatalogSelection ==
    \A n \in 1..3 : \E m \in 1..Len(rotor_list) :
        wiring[rotor_sel[n]] = rotor_list[m]

\* C1 (reciprocity): with catalog rotors, the second call, made on the value
\* of the first with the same configuration, does not raise and rebuilds the
\* upper-cased message symbol by symbol; its value is the upper-cased message.
Reciprocity ==
    (stage = "decrypt" /\ CatalogSelection) =>
        /\ pc # "raised"
        /\ pc \in {"loop", "returned"} =>
               result = SubSeq(Upper(message), 1, consumed)
        /\ pc = "returned" => result = Upper(message)

\* a two-letter message deciphered with a plugboard and every dial at 26
ReciprocityWitness ==
    /\ stage = "decrypt" /\ pc = "returned"
    /\ CatalogSelection
    /\ message = <<"z", "A">>
    /\ rotor_pos = <<26, 26, 26>>
    /\ plugboard # EmptyDict
    /\ en # result
    /\ result = <<"Z", "A">>

\* the 26 symbols of the alphabet, as a set
Letters == {abc[n] : n \in 1..Len(abc)}

\* one of the 26 letters, in either case
IsLetter(c) == c \in Letters \/ c \in {lowercase[n] : n \in 1..Len(lowercase)}

\* C2 (length and position preservation): the value of a call is as long as
\* its text argument, holds every character that is no letter at its index
\* unchanged, and holds an upper-case letter at every letter's index.
Preservation ==
    (stage = "encrypt" /\ pc = "returned") =>
        /\ Len(result) = Len(message)
        /\ \A n \in 1..Len(message) :
               IF IsLetter(message[n]) THEN result[n] \in Letters
               ELSE result[n] = message[n]

\* the three offsets read as one number, offset1 the lowest digit
Odometer ==
    rotorpos1 + Len(abc) * rotorpos2 + Len(abc) * Len(abc) * rotorpos3

\* C3 (pass-through leaves the rotors alone): an iteration of the loop that
\* takes a symbol outside the alphabet leaves the three offsets as they are,
\* one that takes a letter moves the odometer by exactly one, and no other
\* step of the loop changes the offsets.
PassThroughKeepsOffsets ==
    [][pc = "loop" =>
          IF consumed' = consumed + 1 /\ text[consumed + 1] \in Letters
          THEN Odometer' = (Odometer + 1) % (Len(abc) * Len(abc) * Len(abc))
          ELSE <<rotorpos1, rotorpos2, rotorpos3>>' =
               <<rotorpos1, rotorpos2, rotorpos3>>]_vars

\* a digit taken after a letter that made offset1 wrap and carry
PassThroughWitness ==
    /\ pc = "loop" /\ consumed = 2
    /\ text = <<"A", "1">>
    /\ result[2] = "1"
    /\ rotor_pos = <<26, 1, 1>>
    /\ <<rotorpos1, rotorpos2, rotorpos3>> = <<0, 1, 0>>

\* how many letters the loop has taken
LettersDone == Cardinality({n \in 1..consumed : text[n] \in Letters})

\* C4 (odometer carry): from dial 1 in slot 1, after exactly 26 letters
\* offset1 is 0 again and offset2 is one further (modulo 26); with dial 1 in
\* slot 2 as well, after exactly 26*26 letters offset1 and offset2 are 0 again
\* and offset3 is one further (modulo 26).
OdometerCarry ==
    (pc = "loop" /\ rotor_pos[1] = 1) =>
        /\ LettersDone = 26 =>
               /\ rotorpos1 = 0
               /\ rotorpos2 = ((rotor_pos[2] - 1) + 1) % 26
        /\ (LettersDone = 26 * 26 /\ rotor_pos[2] = 1) =>
               /\ rotorpos1 = 0
               /\ rotorpos2 = 0
               /\ rotorpos3 = ((rotor_pos[3] - 1) + 1) % 26

\* 26*26 letters taken among digits, offset3 wrapping from dial 26
OdometerCarryWitness ==
    /\ pc = "loop"
    /\ rotor_pos = <<1, 1, 26>>
    /\ LettersDone = 26 * 26
    /\ consumed > LettersDone
    /\ <<rotorpos1, rotorpos2, rotorpos3>> = <<0, 0, 0>>

\* the exceptions of _validator and _plugboard
ValidationErrors ==
    {UniqueRotors, FirstPosition, SecondPosition, ThirdPosition, OddNumber,
     NotInList, DuplicateSymbol}

\* two slots of the selection hold the same wiring
DuplicateRotor ==
    \E i, j \in 1..3 : i < j /\ wiring[rotor_sel[i]] = wiring[rotor_sel[j]]

\* the slots whose dial position is outside 1..26
BadSlots == {n \in 1..3 : rotor_pos[n] < 1 \/ rotor_pos[n] > 26}

\* the first call has got as far as building the plugboard
PlugboardBuilt ==
    stage = "encrypt" /\ pc # "entry" /\ ~DuplicateRotor /\ BadSlots = {}

\* s without its blanks
Stripped(s) == SelectSeq(s, LAMBDA c : c # " ")

\* s holds letters of the alphabet only, none of them twice
DistinctLetters(s) ==
    /\ \A n \in 1..Len(s) : s[n] \in Letters
    /\ \A m, n \in 1..Len(s) : m # n => s[m] # s[n]

\* C5 (blanks are dropped before the plugboard checks): a setting whose
\* characters other than blanks are an even number of distinct letters builds
\* the plugboard of the setting without its blanks, and one whose characters
\* other than blanks are odd in number raises the odd-number exception.
BlanksDropped ==
    PlugboardBuilt =>
        LET s == Stripped(Upper(pb))
        IN  /\ (Len(s) % 2 = 0 /\ DistinctLetters(s)) =>
                   /\ error \notin ValidationErrors
                   /\ plugboard = _plugboard(s).pb
            /\ Len(s) % 2 = 1 => error = OddNumber

\* C6 (totality after validation): a call raises only from the validator,
\* before it has taken a symbol.
TotalAfterValidation ==
    pc = "raised" =>
        /\ error \in ValidationErrors
        /\ consumed = 0
        /\ result = <<>>

\* the plugboard setting as the validator gets it is malformed
Malformed(s) ==
    \/ Len(s) % 2 = 1
    \/ \E n \in 1..Len(s) : s[n] \notin Letters
    \/ \E m, n \in 1..Len(s) : m # n /\ s[m] = s[n]

InvalidConfiguration ==
    DuplicateRotor \/ BadSlots # {} \/ Malformed(Upper(pb))

\* C7 (eager, all-or-nothing validation): with an invalid configuration the
\* call ends in a validation exception and never enters the loop: no symbol
\* is taken or appended, no offset is set, there is no value and no second
\* call.
EagerValidation ==
    InvalidConfiguration =>
        /\ stage = "encrypt"
        /\ pc \in {"entry", "raised"}
        /\ pc = "raised" => error \in ValidationErrors
        /\ consumed = 0 /\ result = <<>> /\ en = <<>>
        /\ <<rotorpos1, rotorpos2, rotorpos3>> = <<0, 0, 0>>
        /\ plugboard = EmptyDict

\* a malformed plugboard alone, with text waiting, has raised
EagerValidationWitness ==
    /\ pc = "raised"
    /\ ~DuplicateRotor /\ BadSlots = {}
    /\ pb = <<"A", "A", "1", "B">>
    /\ Len(text) = 2
    /\ result = <<>>

\* C8 (position bounds): with three distinct rotors the call raises a
\* position exception exactly when a dial position is outside 1..26, and the
\* exception names the lowest such slot.
PositionBounds ==
    (stage = "encrypt" /\ pc # "entry" /\ ~DuplicateRotor) =>
        /\ error \in {FirstPosition, SecondPosition, ThirdPosition}
               <=> BadSlots # {}
        /\ BadSlots # {} =>
               LET low == CHOOSE n \in BadSlots : \A m \in BadSlots : n <= m
               IN  error = <<FirstPosition, SecondPosition, ThirdPosition>>[low]

\* 26 accepted in slot 1, 27 reported for slot 2 although slot 3 holds 0
PositionBoundsWitness ==
    /\ pc = "raised"
    /\ rotor_pos = <<26, 27, 0>>
    /\ error = SecondPosition
    /\ pb = <<"A", "A">>

\* C9 (rotor distinctness): the call raises the unique-rotors exception
\* exactly when two slots hold the same wiring, whatever the positions and
\* the plugboard setting.
RotorDistinctness ==
    (stage = "encrypt" /\ pc # "entry") =>
        (error = UniqueRotors <=> DuplicateRotor)

\* a repeated rotor reported although positions and plugboard are bad too
RotorDistinctnessWitness ==
    /\ pc = "raised"
    /\ rotor_sel = <<"rotor1", "rotor1", "rotor2">>
    /\ rotor_pos = <<0, 27, 0>>
    /\ pb = <<"A", "1">>
    /\ error = UniqueRotors

\* s holds a character outside the alphabet
HasOutside(s) == \E n \in 1..Len(s) : s[n] \notin Letters

\* s holds a character more than once
HasRepeat(s) == \E m, n \in 1..Len(s) : m # n /\ s[m] = s[n]

\* C10 as stated: a setting with a character outside the alphabet or a
\* repeated character builds no plugboard; if it has an even, non-zero
\* length, the first kind raises the not-in-list exception and the second
\* kind the duplicate-symbol exception.
SymbolRejection ==
    PlugboardBuilt =>
        LET s == Upper(pb)
        IN  /\ (HasOutside(s) \/ HasRepeat(s)) =>
                   pc = "raised" /\ plugboard = EmptyDict
            /\ (Len(s) % 2 = 0 /\ HasOutside(s)) => error = NotInList
            /\ (Len(s) % 2 = 0 /\ HasRepeat(s)) => error = DuplicateSymbol

\* the first position of s that holds a character outside the alphabet or a
\* character met before
FirstOffence(s) ==
    CHOOSE n \in 1..Len(s) :
        /\ s[n] \notin Letters \/ \E m \in 1..(n - 1) : s[m] = s[n]
        /\ \A l \in 1..(n - 1) :
               s[l] \in Letters /\ \A m \in 1..(l - 1) : s[m] # s[l]

\* C10 amended: such a setting builds no plugboard; if it has an even length,
\* the exception is decided by the first offending character from the left:
\* not-in-list if it is outside the alphabet, duplicate-symbol if it repeats
\* an earlier letter.
SymbolRejectionByFirstOffence ==
    PlugboardBuilt =>
        LET s == Upper(pb)
        IN  (HasOutside(s) \/ HasRepeat(s)) =>
                /\ pc = "raised" /\ plugboard = EmptyDict
                /\ Len(s) % 2 = 0 =>
                       error = IF s[FirstOffence(s)] \notin Letters
                               THEN NotInList ELSE DuplicateSymbol

\* a repeat met before a character outside the alphabet
SymbolRejectionWitness ==
    /\ pc = "raised"
    /\ ~DuplicateRotor /\ BadSlots = {}
    /\ pb = <<"A", "A", "1", "B">>
    /\ error = DuplicateSymbol

\* ------------------------------------------------- calls over many keys
\* one-letter texts over the whole alphabet, and a text with a digit between
\* letters
KeyMessages == {<<abc[n]>> : n \in 1..Len(abc)} \cup {<<"q", "1", "Z", "A">>}

KeyPositions == {1, 2, 14, 26}

KeySelections ==
    { <<"rotor1", "rotor2", "rotor3">>, <<"rotor4", "rotor5", "rotor6">>,
      <<"rotor9", "rotor8", "rotor7">> }

KeyPlugSettings == { <<>>, <<"P","O","L","A","N","D">> }

InitKey ==
    /\ message \in KeyMessages
    /\ rotor_pos \in KeyPositions \X KeyPositions \X KeyPositions
    /\ rotor_sel \in KeySelections
    /\ pb \in KeyPlugSettings
    /\ en = <<>>
    /\ stage = "encrypt"
    /\ pc = "entry"
    /\ Unbound
    /\ error = NoError

SpecKey == InitKey /\ [][Next]_vars

\* ------------------------------------------ the odometer over a full cycle
\* the letters that the odometer is stepped for: one more than the offsets
\* have values
CycleLen == 17577

CyclePositions == { <<1, 1, 1>>, <<14, 26, 2>>, <<26, 26, 26>> }

\* a call that has nothing bound yet; the text is left out of the state
InitCycle ==
    /\ message = <<>>
    /\ rotor_pos \in CyclePositions
    /\ rotor_sel = <<"rotor1", "rotor2", "rotor3">>
    /\ pb = <<>>
    /\ en = <<>>
    /\ stage = "encrypt"
    /\ pc = "entry"
    /\ Unbound
    /\ error = NoError

\* "moves/resets rotor positions" alone: the step that an iteration makes for
\* a letter, with consumed counting the letters; the letter and its output
\* are not kept
Turn ==
    /\ pc = "loop"
    /\ consumed < CycleLen
    /\ LET next == Advance(rotorpos1, rotorpos2, rotorpos3)
       IN  /\ rotorpos1' = next[1]
           /\ rotorpos2' = next[2]
           /\ rotorpos3' = next[3]
    /\ consumed' = consumed + 1
    /\ UNCHANGED <<driver, en, stage, pc, text, plugboard, result, error>>

NextCycle == Call \/ Turn

SpecCycle == InitCycle /\ [][NextCycle]_vars

\* ---------------------------------------------------- properties, continued
\* plugboard is the dict of a call that has passed the validator
PlugboardInUse == pc \in {"loop", "returned"}

\* C11 (plugboard involution): the dict a call got from the validator maps
\* letters to letters, b to a whenever it maps a to b, and no symbol to
\* itself; its keys are the symbols of the setting, two for every pair; Plug
\* gives back a symbol that is no key; the empty setting gives the empty dict.
PlugboardInvolution ==
    PlugboardInUse =>
        /\ \A a \in DOMAIN plugboard :
               /\ a \in Letters /\ plugboard[a] \in Letters
               /\ plugboard[a] \in DOMAIN plugboard
               /\ plugboard[plugboard[a]] = a
               /\ plugboard[a] # a
        /\ DOMAIN plugboard = {Upper(pb)[n] : n \in 1..Len(Upper(pb))}
        /\ Cardinality(DOMAIN plugboard) = 2 * (Len(Upper(pb)) \div 2)
        /\ \A x \in Letters \ DOMAIN plugboard : Plug(plugboard, x) = x
        /\ pb = <<>> => plugboard = EmptyDict

\* the dict of POLAND in use: A and L partners, B no key
PlugboardInvolutionWitness ==
    /\ PlugboardInUse
    /\ pb = <<"P","O","L","A","N","D">>
    /\ Cardinality(DOMAIN plugboard) = 6
    /\ Plug(plugboard, "A") = "L" /\ Plug(plugboard, "L") = "A"
    /\ Plug(plugboard, "B") = "B"

\* the partner of the symbol at position n of a setting: its right neighbour
\* at an odd position, its left neighbour at an even one
Partner(s, n) == IF n % 2 = 1 THEN s[n + 1] ELSE s[n - 1]

\* C12 (what the validator returns): on a valid configuration _validator
\* returns the positions and the selection it was given, and the dict in
\* which the symbols at positions 2i and 2i+1 of the setting are partners and
\* nothing else is a key; the call takes its offsets and plugboard from them.
ValidatorReturns ==
    LET s == Upper(pb)
        v == _validator(rotor_pos, Wired(rotor_sel), s)
    IN  (PlugboardInUse /\ consumed = 0) =>
            /\ v.exc = NoError
            /\ v.rotpos = rotor_pos
            /\ v.rotsel = Wired(rotor_sel)
            /\ DOMAIN v.pbdict = {s[n] : n \in 1..Len(s)}
            /\ \A n \in 1..Len(s) : v.pbdict[s[n]] = Partner(s, n)
            /\ plugboard = v.pbdict
            /\ <<rotorpos1, rotorpos2, rotorpos3>> =
                   <<rotor_pos[1] - 1, rotor_pos[2] - 1, rotor_pos[3] - 1>>

\* the doctest: positions (1, 1, 1), rotors 1, 2, 3 and POLAND
ValidatorReturnsWitness ==
    /\ pc = "loop" /\ consumed = 0
    /\ rotor_pos = <<1, 1, 1>>
    /\ rotor_sel = <<"rotor1", "rotor2", "rotor3">>
    /\ pb = <<"P","O","L","A","N","D">>
    /\ plugboard = ("P" :> "O") @@ ("O" :> "P") @@ ("L" :> "A") @@
                   ("A" :> "L") @@ ("N" :> "D") @@ ("D" :> "N")

\* the symbol that the reflector gave for the n-th symbol of the text: the
\* symbol after the three forward passes, reflected
Reflected(n) ==
    LET W  == Wired(rotor_sel)
        k  == Cardinality({m \in 1..(n - 1) : text[m] \in Letters})
        o  == (rotor_pos[1] - 1) + 26 * (rotor_pos[2] - 1) + 676 * (rotor_pos[3] - 1) + k
        s1 == Plug(plugboard, text[n])
        s2 == ForwardPass(W[1], o % 26, s1)
        s3 == ForwardPass(W[2], (o \div 26) % 26, s2)
        s4 == ForwardPass(W[3], (o \div 676) % 26, s3)
    IN  <<s4, Reflect(s4)>>

\* C13 (reflector involution): the reflector has the 26 letters as keys, gives
\* a letter for each, gives the key back when applied to what it gave, and
\* gives no letter for itself; so it is in every call, for each letter that
\* reaches it.
ReflectorInvolution ==
    /\ DOMAIN reflector = Letters
    /\ \A x \in Letters :
          /\ reflector[x] \in Letters
          /\ reflector[reflector[x]] = x
          /\ reflector[x] # x
    /\ pc \in {"loop", "returned"} =>
          \A n \in 1..consumed : text[n] \in Letters =>
              /\ Reflected(n)[1] \in Letters
              /\ Reflected(n)[2] \in Letters \ {Reflected(n)[1]}
              /\ Reflect(Reflected(n)[2]) = Reflected(n)[1]

\* a call has sent "Z" to the reflector and got "M" back
ReflectorInvolutionWitness ==
    /\ pc = "returned"
    /\ consumed = 1
    /\ text[1] \in Letters
    /\ Reflected(1) = <<"Z", "M">>

\* rotor is a sequence of exactly 26 symbols in which every letter appears
\* exactly once
IsBijection(rotor) ==
    /\ Len(rotor) = Len(abc)
    /\ \A x \in Letters : Cardinality({n \in 1..Len(rotor) : rotor[n] = x}) = 1

\* the nine wirings of the catalog are such sequences
CatalogBijections ==
    /\ Len(rotor_list) = 9
    /\ \A n \in 1..Len(rotor_list) : IsBijection(rotor_list[n])

\* C14 (rotor bijections): each of the 9 wirings of the catalog is a sequence
\* of exactly 26 symbols that holds every letter exactly once, in every state
\* of every call; no step of a call changes the selection or the wirings that
\* it stands for.
RotorBijections ==
    /\ [](CatalogBijections /\ \A n \in 1..3 : IsBijection(Wired(rotor_sel)[n]))
    /\ [][rotor_sel' = rotor_sel /\ Wired(rotor_sel)' = Wired(rotor_sel)]_vars

\* both calls made with rotors 9, 8 and 7, the second one returned
RotorBijectionsWitness ==
    /\ stage = "decrypt"
    /\ pc = "returned"
    /\ consumed = 4
    /\ Wired(rotor_sel) = <<rotor9, rotor8, rotor7>>
    /\ IsBijection(rotor9)

\* the loop is about to take a letter
AtLetter ==
    /\ pc = "loop"
    /\ consumed < Len(text)
    /\ text[consumed + 1] \in Letters

\* the per-symbol transform at the offsets of the current state
E(x) == Encipher(x, plugboard, Wired(rotor_sel), rotorpos1, rotorpos2, rotorpos3)

\* the offset of the rotor in slot n
Offset(n) == <<rotorpos1, rotorpos2, rotorpos3>>[n]

\* for every rotor of the catalog, every offset in 0..25 and every letter, the
\* reverse pass undoes the forward pass
PassesInverse ==
    \A r \in 1..Len(rotor_list) : \A rotorpos \in 0..(Len(abc) - 1) : \A x \in Letters :
        ReversePass(rotor_list[r], rotorpos, ForwardPass(rotor_list[r], rotorpos, x)) = x

\* C15 (per-symbol self-inverse): for every catalog rotor, offset in 0..25 and
\* letter the reverse pass undoes the forward pass; with catalog rotors, at
\* the offsets at which the loop is about to take a letter x, the transform
\* gives a letter for x and gives x for that letter, and for each of the three
\* rotors the reverse pass at the rotor's offset undoes the forward pass at
\* that offset, and the forward pass the reverse pass.
SelfInverse ==
    /\ PassesInverse
    /\ AtLetter /\ CatalogSelection =>
          LET x == text[consumed + 1]
          IN  /\ E(x) \in Letters
              /\ E(E(x)) = x
              /\ \A n \in 1..3 :
                    LET rotor == Wired(rotor_sel)[n]
                    IN  /\ ReversePass(rotor, Offset(n), ForwardPass(rotor, Offset(n), x)) = x
                        /\ ForwardPass(rotor, Offset(n), ReversePass(rotor, Offset(n), x)) = x

\* a letter about to be taken through a plugboard with every offset at 25,
\* where the reverse pass of rotor 1 takes a negative index
SelfInverseWitness ==
    /\ AtLetter
    /\ CatalogSelection
    /\ plugboard # EmptyDict
    /\ text[consumed + 1] = "P"
    /\ rotorpos1 = 25 /\ rotorpos2 = 25 /\ rotorpos3 = 25
    /\ StrIndex(rotor1, ForwardPass(rotor1, 25, "P")) - rotorpos1 < 0
    /\ rotor_sel[1] = "rotor1"
    /\ E(E("P")) = "P"

\* the dial positions of the call minus 1, advanced k times: the number that
\* the initial offsets make, offset1 its lowest digit in base 26, plus k
OffsetsAfter(k) ==
    LET o == (rotor_pos[1] - 1) + Len(abc) * (rotor_pos[2] - 1)
             + Len(abc) * Len(abc) * (rotor_pos[3] - 1) + k
    IN  <<o % Len(abc), (o \div Len(abc)) % Len(abc),
          (o \div (Len(abc) * Len(abc))) % Len(abc)>>

\* the letters among the first n symbols of the text
LettersUpTo(n) == Cardinality({m \in 1..n : text[m] \in Letters})

\* the k-th letter is transformed with the initial offsets advanced k-1 times
StepAfterOutput ==
    pc \in {"loop", "returned"} /\ CatalogSelection =>
        /\ <<rotorpos1, rotorpos2, rotorpos3>> = OffsetsAfter(LettersUpTo(consumed))
        /\ \A n \in 1..consumed : text[n] \in Letters =>
              LET o == OffsetsAfter(LettersUpTo(n) - 1)
              IN  result[n] = Encipher(text[n], plugboard, Wired(rotor_sel), o[1], o[2], o[3])

\* an iteration on a letter appends the transform at the offsets before the
\* step, and steps: offset1 by one, offset2 only if offset1 was 25, offset3
\* only if offset2 wraps as well, each from 25 to 0
StepRule ==
    pc = "loop" /\ pc' = "loop" /\ consumed' = consumed + 1
    /\ text[consumed + 1] \in Letters =>
        LET last == Len(abc) - 1
            Inc(p) == IF p = last THEN 0 ELSE p + 1
        IN  /\ result' = Append(result, E(text[consumed + 1]))
            /\ rotorpos1' = Inc(rotorpos1)
            /\ rotorpos2' = IF rotorpos1 = last THEN Inc(rotorpos2) ELSE rotorpos2
            /\ rotorpos3' = IF rotorpos1 = last /\ rotorpos2 = last
                            THEN Inc(rotorpos3) ELSE rotorpos3

\* C16 (odometer step rule and ordering): the step is taken after the output
\* for a letter: the first letter is transformed with the initial offsets
\* (position minus 1) and the k-th letter with these advanced k-1 times; one
\* step increments offset1, increments offset2 only when offset1 wraps from 25
\* to 0, increments offset3 only when offset2 wraps from 25 to 0, and wraps
\* offset3 from 25 to 0 with nothing carried further.
StepRuleAndOrdering ==
    /\ []StepAfterOutput
    /\ [][StepRule]_vars

\* from dials 26, 26, 26 the first letter made all three offsets wrap, and
\* two more letters were taken after a digit
StepRuleAndOrderingWitness ==
    /\ pc = "loop"
    /\ stage = "encrypt"
    /\ rotor_pos = <<26, 26, 26>>
    /\ text = <<"Q", "1", "Z", "A">>
    /\ consumed = 4
    /\ <<rotorpos1, rotorpos2, rotorpos3>> = <<2, 0, 0>>
    /\ result[1] = Encipher("Q", plugboard, Wired(rotor_sel), 25, 25, 25)
    /\ result[3] = Encipher("Z", plugboard, Wired(rotor_sel), 0, 0, 0)

\* the call has passed the validator
Validated ==
    \/ pc \in {"loop", "returned"}
    \/ pc = "raised" /\ error \notin ValidationErrors

\* C17 (offset range): once the validator has passed, in every state of the
\* call, before and after every symbol, each of the three offsets is an
\* integer in 0..25, so that each dial position, the offset plus 1, is in
\* 1..26.
OffsetRange ==
    Validated =>
        \A n \in 1..3 :
            /\ Offset(n) \in 0..(Len(abc) - 1)
            /\ Offset(n) + 1 \in 1..Len(abc)
            /\ rotor_pos[n] \in 1..Len(abc)

\* from dials 2, 26, 26 the 25th letter has just made all three offsets wrap
OffsetRangeWitness ==
    /\ pc = "loop"
    /\ rotor_pos = <<2, 26, 26>>
    /\ <<rotorpos1, rotorpos2, rotorpos3>> = <<0, 0, 0>>
    /\ consumed = 25
    /\ LettersDone = 25

\* C18 (no letter is enciphered to itself): with catalog rotors, whatever the
\* plugboard and the offsets, the transform gives for the letter about to be
\* taken another letter, and at every index where the upper-cased text holds
\* a letter the value of the call holds a different letter.
NoSelfEncipherment ==
    CatalogSelection =>
        /\ AtLetter => E(text[consumed + 1]) \in Letters \ {text[consumed + 1]}
        /\ pc \in {"loop", "returned"} =>
              \A n \in 1..consumed :
                  text[n] \in Letters => result[n] \in Letters \ {text[n]}

\* a plugged letter, alone in its text, has come out as another letter
NoSelfEnciphermentWitness ==
    /\ pc = "returned"
    /\ stage = "encrypt"
    /\ text = <<"P">>
    /\ "P" \in DOMAIN plugboard
    /\ Len(result) = 1
    /\ result[1] \in Letters \ {"P"}

\* the number of offset triples, 26 * 26 * 26
Period == Len(abc) * Len(abc) * Len(abc)

\* the offsets that the call started from
InitialOffsets == <<rotor_pos[1] - 1, rotor_pos[2] - 1, rotor_pos[3] - 1>>

\* C19 (full-cycle period): from the offsets that a call starts with, the
\* offsets after n letters are the initial offsets exactly when n is a multiple of
\* 26*26*26 = 17576, and the offsets read as a number in base 26 are the
\* initial number plus n, modulo 17576: the first 17576 triples are pairwise
\* different, so every triple is met exactly once in a cycle.
FullCycle ==
    pc \in {"loop", "returned"} =>
        /\ \A n \in 1..3 : Offset(n) \in 0..(Len(abc) - 1)
        /\ (<<rotorpos1, rotorpos2, rotorpos3>> = InitialOffsets) <=> (consumed % Period = 0)
        /\ Odometer = ( InitialOffsets[1] + Len(abc) * InitialOffsets[2]
                        + Len(abc) * Len(abc) * InitialOffsets[3] + consumed ) % Period

\* from dials 14, 26, 2 the 17576th letter has brought the offsets back
FullCycleWitness ==
    /\ pc = "loop"
    /\ consumed = Period
    /\ rotor_pos = <<14, 26, 2>>
    /\ <<rotorpos1, rotorpos2, rotorpos3>> = <<13, 25, 1>>

=============================================================================
